---- MODULE Spec2Model ----
(***************************************************************************)
(* Model of prettier-plugin-sort-members' data-dependency ordering:        *)
(*   extractDependencies / extractName / dataDependency                    *)
(*     (src/lib/comparator/data-dependency.ts)                             *)
(*   preprocess / memberNodes (src/unnamed/part_000)                       *)
(* One behaviour rewrites one declaration body twice: the second rewrite   *)
(* is applied to the output of the first.                                  *)
(***************************************************************************)
EXTENDS Integers, Sequences, FiniteSets, TLC

(* ------------------------------ bounds --------------------------------- *)
\* longest member list of a declaration body
MaxMembers == 3
\* the pass counter saturates here (it is only an observer of the loop)
PassCap == 6

(* --------------------------- JS primitives ----------------------------- *)
\* the JS value undefined, where a string is expected
undefined == "<undefined>"
\* the JS value null, where a node is expected
Null == [type |-> "null"]

\* truthiness of a string-or-undefined value (cur.parent, name)
Truthy(s) == s # undefined /\ s # ""

\* Order enum of ./comparator.ts
Less == -1
Equal == 0
Greater == 1

\* code-unit order of the identifier names used in the inputs
Rank(s) ==
    CASE s = "a" -> 1
      [] s = "b" -> 2
      [] s = "c" -> 3
      [] s = "k" -> 4
      [] s = "x" -> 5
      [] s = "y" -> 6
      [] s = "z" -> 7
      [] OTHER -> 8

(* ------------------------------ AST nodes ------------------------------ *)
This == [type |-> "ThisExpression"]
Ident(n) == [type |-> "Identifier", name |-> n]
StrLit(s) == [type |-> "Literal", typeofValue |-> "string", value |-> s]
NumLit(s) == [type |-> "Literal", typeofValue |-> "number", value |-> s]
Mem(o, n) == [type |-> "MemberExpression", object |-> o, property |-> Ident(n)]
Arr(es) == [type |-> "ArrayExpression", elements |-> es]
Obj(ps) == [type |-> "ObjectExpression", properties |-> ps]
Prop(k, v) == [type |-> "Property", key |-> k, computed |-> FALSE, value |-> v]
Call(c, as) == [type |-> "CallExpression", callee |-> c, arguments |-> as]
Chain(e) == [type |-> "ChainExpression", expression |-> e]
AsExpr(e) == [type |-> "TSAsExpression", expression |-> e]
\* function () { return e }
Func(e) == [type |-> "FunctionExpression", body |-> e]
PropDef(k, c, v) ==
    [type |-> "PropertyDefinition", key |-> k, computed |-> c, value |-> v]
MethodDef(kd, k, e) ==
    [type |-> "MethodDefinition", kind |-> kd, key |-> k, computed |-> FALSE,
     value |-> Func(e)]
PropSig(k) == [type |-> "TSPropertySignature", key |-> k, computed |-> FALSE]
StaticBlock == [type |-> "StaticBlock"]

\* the class elements the inputs are built from
ClassPool ==
    { PropDef(Ident("a"), FALSE, NumLit("1")),                \* a = 1
      PropDef(Ident("a"), FALSE, Mem(This, "b")),             \* a = this.b
      PropDef(Ident("a"), FALSE,
              Arr(<<Mem(This, "x"), Null, Mem(This, "x")>>)), \* a = [this.x, , this.x]
      PropDef(Ident("b"), FALSE, Mem(This, "a")),             \* b = this.a
      PropDef(Ident("b"), FALSE, Mem(This, "c")),             \* b = this.c
      PropDef(Ident("b"), FALSE, Mem(This, "b")),             \* b = this.b
      PropDef(Ident("c"), FALSE,                              \* c = this.z(1, this.a?.y as T)
              Call(Mem(This, "z"),
                   <<NumLit("1"),
                     AsExpr(Chain(Mem(Mem(This, "a"), "y")))>>)),
      MethodDef("method", Ident("c"), Mem(This, "a")),        \* c() { return this.a }
      MethodDef("get", Ident("b"), Mem(This, "a")),           \* get b() { return this.a }
      PropDef(Ident("k"), TRUE,                               \* [k] = { 'x': this.y }
              Obj(<<Prop(StrLit("x"), Mem(This, "y"))>>)),
      StaticBlock }                                           \* static {}

\* the signatures interface bodies and type literals are built from
SigPool == { PropSig(Ident("a")), PropSig(Ident("b")), PropSig(NumLit("1")) }

RECURSIVE SeqsUpTo(_, _)
SeqsUpTo(S, n) ==
    IF n = 0 THEN { <<>> }
    ELSE LET shorter == SeqsUpTo(S, n - 1)
         IN shorter \cup { Append(s, e) : s \in shorter, e \in S }

Declarations ==
    { [type |-> "ClassBody", body |-> b] : b \in SeqsUpTo(ClassPool, MaxMembers) }
    \cup { [type |-> "TSInterfaceBody", body |-> b] :
             b \in SeqsUpTo(SigPool, MaxMembers) \ { <<>> } }
    \cup { [type |-> "TSTypeLiteral", members |-> b] :
             b \in SeqsUpTo(SigPool, MaxMembers) \ { <<>> } }

\* the member list of a declaration body
MembersOf(d) == IF d.type = "TSTypeLiteral" THEN d.members ELSE d.body
WithMembers(d, ms) ==
    IF d.type = "TSTypeLiteral" THEN [d EXCEPT !.members = ms]
    ELSE [d EXCEPT !.body = ms]

(* ---------------------------- extractName ------------------------------ *)
extractName(n) ==
    IF "key" \in DOMAIN n
    THEN CASE n.key.type \in {"Identifier", "PrivateIdentifier"} ->
                IF "computed" \in DOMAIN n /\ n.computed = TRUE
                THEN undefined ELSE n.key.name
           [] n.key.type = "Literal" ->
                IF n.key.typeofValue # "string" THEN undefined ELSE n.key.value
           [] n.key.type = "PrivateName" ->
                IF n.key.id.type # "Identifier" THEN undefined ELSE n.key.id.name
           [] n.key.type = "StringLiteral" -> n.key.value
           [] OTHER -> undefined
    ELSE undefined

(* ------------------------------- state --------------------------------- *)
VARIABLES
    node,      \* $: the declaration body being rewritten
    q,         \* the breadth-first queue of extractDependencies
    map,       \* DataDependencyMap: name -> list of names (read only at its keys)
    mapKeys,   \* the keys of map, in insertion order (Object.keys order)
    keys,      \* const keys = Object.keys(map), taken before the closure loop
    ki,        \* position of the for-of loop over keys (1-based)
    modified,  \* the flag of the do-while loop
    passes,    \* passes of the do-while loop started so far (saturating observer)
    order,     \* order[i] = input index of the member at output index i
    round,     \* 1: first rewrite, 2: rewrite of the first rewrite's output
    pc         \* "queue", "closure", "sort", "done"

vars == <<node, q, map, mapKeys, keys, ki, modified, passes, order, round, pc>>

\* every name a key or a dependency can be in the inputs
NameUniverse == {"a", "b", "c", "k", "x", "y", "z"}

Range(s) == { s[i] : i \in 1..Len(s) }
Has(ks, k) == k \in Range(ks)
Min(i, j) == IF i < j THEN i ELSE j

(* ------------------------- extractDependencies ------------------------- *)
\* queueEntryMapper(cur)(n)
queueEntryMapper(cur, n) ==
    [parent |-> IF Truthy(cur.parent) THEN cur.parent ELSE extractName(cur.node),
     node |-> n]

MapAll(cur, ns) == [i \in 1..Len(ns) |-> queueEntryMapper(cur, ns[i])]

\* dep_name.endsWith('?') ? dep_name.slice(0, -1) : dep_name
\* (the only names ending in '?' that the table knows are listed here; an
\*  Identifier of a parsed program never ends in '?')
StripOptional(n) ==
    CASE n = "a?" -> "a"
      [] n = "b?" -> "b"
      [] n = "c?" -> "c"
      [] OTHER -> n

\* Pushed, had the switch also descended into method and accessor bodies
PushedWithMethods(cur) ==
    LET n == cur.node
    IN CASE n.type \in {"TSInterfaceBody", "ClassBody"} -> MapAll(cur, n.body)
         [] n.type = "TSTypeLiteral" -> MapAll(cur, n.members)
         [] n.type = "ObjectExpression" -> MapAll(cur, n.properties)
         [] n.type \in {"PropertyDefinition", "Property", "MethodDefinition"} ->
              IF n.value # Null THEN <<queueEntryMapper(cur, n.value)>> ELSE <<>>
         [] n.type = "FunctionExpression" -> <<queueEntryMapper(cur, n.body)>>
         [] n.type = "ArrayExpression" -> MapAll(cur, n.elements)
         [] n.type = "CallExpression" ->
              (IF n.callee.type = "MemberExpression"
               THEN <<queueEntryMapper(cur, n.callee.object)>> ELSE <<>>)
              \o MapAll(cur, n.arguments)
         [] n.type = "MemberExpression" ->
              IF n.property.type = "Identifier"
                 /\ n.object.type # "ThisExpression"
                 /\ n.object.type = "MemberExpression"
              THEN <<queueEntryMapper(cur, n.object)>> ELSE <<>>
         [] n.type \in {"ChainExpression", "TSAsExpression"} ->
              IF n.expression # Null
              THEN <<queueEntryMapper(cur, n.expression)>> ELSE <<>>
         [] OTHER -> <<>>

\* the entries one iteration of the while loop pushes for cur (the switch)
Pushed(cur) ==
    LET n == cur.node
    IN CASE n.type \in {"TSInterfaceBody", "ClassBody"} -> MapAll(cur, n.body)
         [] n.type = "TSTypeLiteral" -> MapAll(cur, n.members)
         [] n.type = "ObjectExpression" -> MapAll(cur, n.properties)
         [] n.type \in {"PropertyDefinition", "Property"} ->
              IF n.value # Null THEN <<queueEntryMapper(cur, n.value)>> ELSE <<>>
         [] n.type = "ArrayExpression" -> MapAll(cur, n.elements)
         [] n.type = "CallExpression" ->
              (IF n.callee.type = "MemberExpression"
               THEN <<queueEntryMapper(cur, n.callee.object)>> ELSE <<>>)
              \o MapAll(cur, n.arguments)
         [] n.type = "MemberExpression" ->
              IF n.property.type = "Identifier"
                 /\ n.object.type # "ThisExpression"
                 /\ n.object.type = "MemberExpression"
              THEN <<queueEntryMapper(cur, n.object)>> ELSE <<>>
         [] n.type \in {"ChainExpression", "TSAsExpression"} ->
              IF n.expression # Null
              THEN <<queueEntryMapper(cur, n.expression)>> ELSE <<>>
         [] OTHER -> <<>>

\* whether the iteration records an edge cur.parent -> this.<name>
RecordsEdge(cur) ==
    /\ cur.node.type = "MemberExpression"
    /\ cur.node.property.type = "Identifier"
    /\ cur.node.object.type = "ThisExpression"
    /\ Truthy(cur.parent)

\* q.shift() and one run of the loop body
QueueStep ==
    /\ pc = "queue"
    /\ q # <<>>
    /\ LET cur == Head(q)
       IN IF cur.node = Null
          THEN /\ q' = Tail(q)
               /\ UNCHANGED <<map, mapKeys>>
          ELSE /\ q' = Tail(q) \o Pushed(cur)
               /\ IF RecordsEdge(cur)
                  THEN LET dep == StripOptional(cur.node.property.name)
                           k == cur.parent
                       IN IF Has(mapKeys, k)
                          THEN /\ map' = [map EXCEPT ![k] = Append(@, dep)]
                               /\ mapKeys' = mapKeys
                          ELSE /\ map' = [map EXCEPT ![k] = <<dep>>]
                               /\ mapKeys' = Append(mapKeys, k)
                  ELSE UNCHANGED <<map, mapKeys>>
    /\ UNCHANGED <<node, keys, ki, modified, passes, order, round, pc>>

\* the queue is empty: keys = Object.keys(map); the do-while loop starts a pass
QueueDone ==
    /\ pc = "queue"
    /\ q = <<>>
    /\ keys' = mapKeys
    /\ modified' = FALSE
    /\ ki' = 1
    /\ passes' = 1
    /\ pc' = "closure"
    /\ UNCHANGED <<node, q, map, mapKeys, order, round>>

\* Array.prototype.sort() on names: ascending code-unit order; position p
\* holds the name that has fewer than p names before it and at least p names
\* not after it
SortNames(s) ==
    [p \in 1..Len(s) |->
        CHOOSE n \in Range(s) :
            /\ Cardinality({ i \in 1..Len(s) : Rank(s[i]) < Rank(n) }) < p
            /\ p <= Cardinality({ i \in 1..Len(s) : Rank(s[i]) <= Rank(n) })]

\* the filter with the seen table: first occurrences only, in order
Dedup(s) ==
    LET first == { i \in 1..Len(s) : \A j \in 1..(i - 1) : s[j] # s[i] }
    IN [p \in 1..Cardinality(first) |->
           s[CHOOSE i \in first : Cardinality({ j \in first : j <= i }) = p]]

\* with_transitives after the inner for-of loop over map[k], from position i
RECURSIVE Transitives(_, _, _, _, _)
Transitives(m, ks, ds, i, acc) ==
    IF i > Len(ds) THEN acc
    ELSE Transitives(m, ks, ds, i + 1,
                     IF Has(ks, ds[i]) THEN acc \o m[ds[i]] ELSE acc)

\* WithTransitives, had the inner loop over map[k] been left out
WithTransitivesDirectOnly(m, ks, k) == SortNames(Dedup(m[k]))

\* WithTransitives, had the deduplicating filter been left out
WithTransitivesNoDedup(m, ks, k) == SortNames(Transitives(m, ks, m[k], 1, m[k]))

\* with_transitives after deduplication and sort
\* (each stage is bound to its value before the next one reads it)
WithTransitives(m, ks, k) ==
    CHOOSE sorted \in
        { SortNames(deduped) :
            deduped \in { Dedup(concat) :
                concat \in { Transitives(m, ks, m[k], 1, m[k]) } } } : TRUE

\* HasChange, had the pass always reported a change
HasChangeAlways(original, with) == TRUE

\* has_change
HasChange(original, with) ==
    \/ Len(original) # Len(with)
    \/ ~ (\A i \in 1..Len(with) : with[i] = original[i])

\* one iteration of for (const k of keys)
ClosureKey ==
    /\ pc = "closure"
    /\ ki <= Len(keys)
    /\ \E with \in {WithTransitives(map, mapKeys, keys[ki])} :
       \E original \in {SortNames(map[keys[ki]])} :
          IF HasChange(original, with)
          THEN /\ modified' = TRUE
               /\ map' = [map EXCEPT ![keys[ki]] = with]
          ELSE /\ modified' = modified
               /\ map' = [map EXCEPT ![keys[ki]] = original]
    /\ ki' = ki + 1
    /\ UNCHANGED <<node, q, mapKeys, keys, passes, order, round, pc>>

\* while (modified): another pass
ClosureAgain ==
    /\ pc = "closure"
    /\ ki > Len(keys)
    /\ modified
    /\ modified' = FALSE
    /\ ki' = 1
    /\ passes' = Min(passes + 1, PassCap)
    /\ UNCHANGED <<node, q, map, mapKeys, keys, order, round, pc>>

\* while (modified) is false: return map
ClosureDone ==
    /\ pc = "closure"
    /\ ki > Len(keys)
    /\ ~ modified
    /\ pc' = "sort"
    /\ UNCHANGED <<node, q, map, mapKeys, keys, ki, modified, passes, order, round>>

(* ---------------------------- dataDependency --------------------------- *)
\* the key function given to C.by: a member's name and dependency list
Keyed(m, ks, n) ==
    LET name == extractName(n)
    IN [name |-> name,
        dependencies |-> IF Truthy(name) /\ Has(ks, name) THEN m[name] ELSE <<>>]

\* compare, with the two dependency answers exchanged
compareSwapped(a, b) ==
    IF Len(a.dependencies) = 0 /\ Len(b.dependencies) = 0 THEN Equal
    ELSE IF Has(a.dependencies, b.name) THEN Less
    ELSE IF Has(b.dependencies, a.name) THEN Greater
    ELSE IF Len(a.dependencies) <= Len(b.dependencies) THEN Less
    ELSE IF Len(b.dependencies) <= Len(a.dependencies) THEN Greater
    ELSE Equal

\* compare, without the early return for two empty dependency lists
compareNoTie(a, b) ==
    IF Has(a.dependencies, b.name) THEN Greater
    ELSE IF Has(b.dependencies, a.name) THEN Less
    ELSE IF Len(a.dependencies) <= Len(b.dependencies) THEN Less
    ELSE IF Len(b.dependencies) <= Len(a.dependencies) THEN Greater
    ELSE Equal

\* the compare function given to C.by
compare(a, b) ==
    IF Len(a.dependencies) = 0 /\ Len(b.dependencies) = 0 THEN Equal
    ELSE IF Has(a.dependencies, b.name) THEN Greater
    ELSE IF Has(b.dependencies, a.name) THEN Less
    ELSE IF Len(a.dependencies) <= Len(b.dependencies) THEN Less
    ELSE IF Len(b.dependencies) <= Len(a.dependencies) THEN Greater
    ELSE Equal

\* C.by(key, cmp): compare two values by their keys
dataDependency(m, ks, x, y) == compare(Keyed(m, ks, x), Keyed(m, ks, y))

\* comparator(options, dependencyMap): the ordering of 4.3
comparator(m, ks, x, y) == dataDependency(m, ks, x, y)

(* -------------------------------- sort --------------------------------- *)
\* membersSet: the member-like node kinds
membersSet ==
    {"PropertyDefinition", "MethodDefinition", "TSAbstractPropertyDefinition",
     "TSAbstractMethodDefinition", "TSPropertySignature", "TSMethodSignature",
     "Property"}

\* memberNodes, had the guard let every node through
memberNodesAll(n) == TRUE

memberNodes(n) == n.type \in membersSet

\* the comparator on positions of the member list ms
Cmp(c, i, j) == comparator(c.m, c.ks, c.ms[i], c.ms[j])

\* Array.prototype.sort of an array shorter than 64: the engine finds the run
\* the array starts with (reversing a strictly descending one) and inserts
\* the remaining elements by binary insertion
RECURSIVE RunEnd(_, _, _, _)
RunEnd(c, arr, desc, idx) ==
    IF idx > Len(arr) THEN idx - 1
    ELSE LET o == Cmp(c, arr[idx], arr[idx - 1])
         IN IF (desc /\ o >= 0) \/ (~ desc /\ o < 0) THEN idx - 1
            ELSE RunEnd(c, arr, desc, idx + 1)

Reverse(s) == [i \in 1..Len(s) |-> s[Len(s) + 1 - i]]

RECURSIVE BinSearch(_, _, _, _, _)
BinSearch(c, arr, pivot, left, right) ==
    IF left < right
    THEN LET mid == left + ((right - left) \div 2)
         IN IF Cmp(c, pivot, arr[mid + 1]) < 0
            THEN BinSearch(c, arr, pivot, left, mid)
            ELSE BinSearch(c, arr, pivot, mid + 1, right)
    ELSE left

RECURSIVE BinaryInsertionSort(_, _, _)
BinaryInsertionSort(c, arr, start) ==
    IF start > Len(arr) THEN arr
    ELSE LET pivot == arr[start]
             left == BinSearch(c, arr, pivot, 0, start - 1)
             moved == SubSeq(arr, 1, left) \o <<pivot>>
                      \o SubSeq(arr, left + 1, start - 1)
                      \o SubSeq(arr, start + 1, Len(arr))
         IN BinaryInsertionSort(c, moved, start + 1)

ArraySort(c, arr) ==
    IF Len(arr) < 2 THEN arr
    ELSE LET desc == Cmp(c, arr[2], arr[1]) < 0
             run == RunEnd(c, arr, desc, 3)
             made == IF desc
                     THEN Reverse(SubSeq(arr, 1, run)) \o SubSeq(arr, run + 1, Len(arr))
                     ELSE arr
         IN BinaryInsertionSort(c, made, run + 1)

\* the positions of ms that pass the guard, ascending
RECURSIVE Selected(_, _)
Selected(ms, i) ==
    IF i > Len(ms) THEN <<>>
    ELSE (IF memberNodes(ms[i]) THEN <<i>> ELSE <<>>) \o Selected(ms, i + 1)

\* C.capture(guard, cmp) under sort: the guarded elements are sorted among
\* themselves into the slots they occupied; the others keep their slots
capture(m, ks, ms) ==
    LET sel == Selected(ms, 1)
        sorted == ArraySort([m |-> m, ks |-> ks, ms |-> ms], sel)
        slot(i) == Cardinality({ j \in 1..i : memberNodes(ms[j]) })
    IN [i \in 1..Len(ms) |-> IF memberNodes(ms[i]) THEN sorted[slot(i)] ELSE i]

\* the member list the rewriter returns
Output == [i \in 1..Len(order) |-> MembersOf(node)[order[i]]]

(* ------------------------------ preprocess ----------------------------- *)
\* body.slice().sort(C.capture(memberNodes, comparator(options, map)))
Sort ==
    /\ pc = "sort"
    /\ order' = capture(map, mapKeys, MembersOf(node))
    /\ pc' = "done"
    /\ UNCHANGED <<node, q, map, mapKeys, keys, ki, modified, passes, round>>

EmptyMap == [n \in NameUniverse |-> <<>>]
Identity(n) == [i \in 1..n |-> i]

\* the rewriter is run again, on the node it returned
Rerun ==
    /\ pc = "done"
    /\ round = 1
    /\ LET out == WithMembers(node, Output)
       IN /\ node' = out
          /\ q' = <<[parent |-> undefined, node |-> out]>>
    /\ map' = EmptyMap
    /\ mapKeys' = <<>>
    /\ keys' = <<>>
    /\ ki' = 1
    /\ modified' = FALSE
    /\ passes' = 0
    /\ order' = Identity(Len(order))
    /\ round' = 2
    /\ pc' = "queue"

Init ==
    /\ node \in Declarations
    /\ q = <<[parent |-> undefined, node |-> node]>>
    /\ map = EmptyMap
    /\ mapKeys = <<>>
    /\ keys = <<>>
    /\ ki = 1
    /\ modified = FALSE
    /\ passes = 0
    /\ order = Identity(Len(MembersOf(node)))
    /\ round = 1
    /\ pc = "queue"

Next ==
    \/ QueueStep
    \/ QueueDone
    \/ ClosureKey
    \/ ClosureAgain
    \/ ClosureDone
    \/ Sort
    \/ Rerun

Spec == Init /\ [][Next]_vars

\* extractDependencies is synchronous code: a loop that can take its next
\* step takes it
FairSpec ==
    /\ Spec
    /\ WF_vars(QueueStep)
    /\ WF_vars(QueueDone)
    /\ WF_vars(ClosureKey)
    /\ WF_vars(ClosureAgain)
    /\ WF_vars(ClosureDone)

(* =============================== claims =============================== *)
N == Len(MembersOf(node))
MemberAt(i) == MembersOf(node)[i]
NameAt(i) == extractName(MemberAt(i))
\* the dependency list the comparator sees for member i
DepsAt(i) == Keyed(map, mapKeys, MemberAt(i)).dependencies
\* the output index of input member i
PosOf(i) == CHOOSE p \in 1..Len(order) : order[p] = i
MemberLike(i) == MemberAt(i).type \in membersSet
\* member i depends on member j: i's dependency list holds j's name
DependsOn(i, j) ==
    /\ MemberLike(i) /\ MemberLike(j)
    /\ Truthy(NameAt(i)) /\ Truthy(NameAt(j))
    /\ Has(DepsAt(i), NameAt(j))
\* member j lies on a cycle of self-references: its list holds its own name
OnCycle(j) == Has(DepsAt(j), NameAt(j))
Moved == order # Identity(Len(order))
\* no two direct members resolve to the same name
DistinctNames ==
    \A i, j \in 1..N : (i # j /\ Truthy(NameAt(i))) => NameAt(i) # NameAt(j)

\* every name read through this anywhere below n
RECURSIVE ThisReads(_)
ThisReads(n) ==
    LET all(ns) == UNION { ThisReads(ns[i]) : i \in 1..Len(ns) }
    IN CASE n.type \in {"ClassBody", "TSInterfaceBody"} -> all(n.body)
         [] n.type = "TSTypeLiteral" -> all(n.members)
         [] n.type \in {"PropertyDefinition", "Property", "MethodDefinition"} ->
              ThisReads(n.value)
         [] n.type = "FunctionExpression" -> ThisReads(n.body)
         [] n.type = "ObjectExpression" -> all(n.properties)
         [] n.type = "ArrayExpression" -> all(n.elements)
         [] n.type = "CallExpression" -> ThisReads(n.callee) \cup all(n.arguments)
         [] n.type \in {"ChainExpression", "TSAsExpression"} -> ThisReads(n.expression)
         [] n.type = "MemberExpression" ->
              IF n.object.type = "ThisExpression" THEN {n.property.name}
              ELSE ThisReads(n.object)
         [] OTHER -> {}

\* C1 (as stated): whenever a's closed dependency list holds b's name, the
\* returned member list has b before a - cycles included. (Stated here for
\* members of different names only.)
C1_DependencyPrecedence ==
    pc = "done" =>
        \A i, j \in 1..N :
            (NameAt(i) # NameAt(j) /\ DependsOn(i, j)) => PosOf(j) < PosOf(i)

\* C1 (amended): whenever a's closed dependency list holds b's name and b is
\* not on a cycle of self-references, the returned member list has b before a.
C1_PrecedenceOffCycles ==
    pc = "done" =>
        \A i, j \in 1..N :
            (i # j /\ DependsOn(i, j) /\ ~ OnCycle(j)) => PosOf(j) < PosOf(i)

\* C1 witness: a dependent that stood before its (cycle-free) dependency was
\* moved behind it.
C1_Witness ==
    /\ pc = "done"
    /\ \E i, j \in 1..N : i < j /\ DependsOn(i, j) /\ ~ OnCycle(j) /\ PosOf(j) < PosOf(i)

C3_Idempotence ==
    (pc = "done" /\ round = 2 /\ DistinctNames) => Output = MembersOf(node)

GetterExample ==
    <<MethodDef("get", Ident("b"), Mem(This, "a")),
      PropDef(Ident("a"), FALSE, NumLit("1"))>>
MethodExample ==
    <<MethodDef("method", Ident("c"), Mem(This, "a")),
      PropDef(Ident("a"), FALSE, NumLit("1")),
      PropDef(Ident("b"), FALSE, Mem(This, "c"))>>

\* C5 (as stated): methods and accessors are dependency sources:
\* [get b() {return this.a}, a = 1] becomes [a = 1, get b()], and
\* [c() {return this.a}, a = 1, b = this.c] gives b the set {c, a} and the
\* order a, c, b.
C5_MethodsAreSources ==
    (pc = "done" /\ round = 1 /\ node.type = "ClassBody") =>
        /\ node.body = GetterExample =>
              Output = <<GetterExample[2], GetterExample[1]>>
        /\ node.body = MethodExample =>
              /\ Range(map["b"]) = {"c", "a"}
              /\ Output = <<MethodExample[2], MethodExample[1], MethodExample[3]>>

\* C5 (amended): methods and accessors are traversal leaves: a class body
\* without property definitions has an empty mapping and keeps its order,
\* [get b() {return this.a}, a = 1] is returned unchanged, and
\* [c() {return this.a}, a = 1, b = this.c] gives b the set {c}, c no entry
\* and keeps the order c, a, b.
C5_MethodsAreLeaves ==
    (pc = "done" /\ round = 1 /\ node.type = "ClassBody") =>
        /\ (\A i \in 1..N : MemberAt(i).type # "PropertyDefinition") =>
              mapKeys = <<>> /\ ~ Moved
        /\ node.body = GetterExample => mapKeys = <<>> /\ Output = GetterExample
        /\ node.body = MethodExample =>
              /\ mapKeys = <<"b">>
              /\ map["b"] = <<"c">>
              /\ Output = MethodExample

\* C5 witness: the three-member example has been rewritten.
C5_Witness ==
    /\ pc = "done" /\ round = 1
    /\ node.type = "ClassBody" /\ node.body = MethodExample

ClosureReturned == pc \in {"sort", "done"}

\* C6: the returned mapping is closed: for every key k and every d in map[k]
\* that is a key, map[d] is contained in map[k].
C6_ClosureFixedPoint ==
    ClosureReturned =>
        \A k \in Range(mapKeys) : \A d \in Range(map[k]) :
            Has(mapKeys, d) => Range(map[d]) \subseteq Range(map[k])

\* C6 witness: a = this.b and b = this.c are members, and the returned map[a]
\* holds c.
C6_Witness ==
    /\ pc = "sort"
    /\ \E i, j \in 1..N :
          /\ MemberAt(i) = PropDef(Ident("a"), FALSE, Mem(This, "b"))
          /\ MemberAt(j) = PropDef(Ident("b"), FALSE, Mem(This, "c"))
    /\ Has(map["a"], "c")

\* C7: extractDependencies terminates: once started, it returns its mapping.
C7_Termination == (pc = "queue") ~> (pc = "sort")

\* C7 witness: extractDependencies returned for members that read each other
\* (a reads this.b and b reads this.a) and for a member that reads itself.
C7_Witness ==
    /\ pc = "sort"
    /\ Has(map["a"], "b") /\ Has(map["b"], "a")
    /\ \E i \in 1..N : MemberAt(i) = PropDef(Ident("b"), FALSE, Mem(This, "b"))

\* C8 (as stated): the closure loop runs at most as many passes as the
\* declaration has members, and no entry holds more distinct names than the
\* declaration has members. (Stated here for declarations with at least one
\* member only.)
C8_PassBound ==
    N >= 1 =>
        /\ passes <= N
        /\ \A k \in Range(mapKeys) : Cardinality(Range(map[k])) <= N

\* C8 (amended): the closure loop runs at most as many passes as the mapping
\* has keys (two when it has fewer than two keys), and no entry holds more
\* distinct names than the declaration reads through this.
C8_PassBoundByKeys ==
    /\ passes <= (IF Len(mapKeys) < 2 THEN 2 ELSE Len(mapKeys))
    /\ \A k \in Range(mapKeys) :
          Cardinality(Range(map[k])) <= Cardinality(ThisReads(node))

\* C8 witness: a single member that reads the same name twice took two passes.
C8_Witness ==
    /\ pc = "sort"
    /\ N = 1
    /\ passes = 2

\* C9: for two members neither of which is in the other's dependency list and
\* not both lists empty, the comparator answers by list size (Less for fewer,
\* Greater for more, Equal for the same size), so the two directions are never
\* both Less and never both Greater.
C9_SizeFallback ==
    ClosureReturned =>
        \A i, j \in 1..N :
            LET a == Keyed(map, mapKeys, MemberAt(i))
                b == Keyed(map, mapKeys, MemberAt(j))
                la == Len(a.dependencies)
                lb == Len(b.dependencies)
            IN (/\ NameAt(i) # NameAt(j)
                /\ MemberLike(i) /\ MemberLike(j)
                /\ ~ Has(a.dependencies, b.name)
                /\ ~ Has(b.dependencies, a.name)
                /\ ~ (la = 0 /\ lb = 0)) =>
                   /\ compare(a, b) = (IF la < lb THEN Less
                                       ELSE IF la > lb THEN Greater ELSE Equal)
                   /\ ~ (compare(a, b) = Less /\ compare(b, a) = Less)
                   /\ ~ (compare(a, b) = Greater /\ compare(b, a) = Greater)

\* C10: every key of the mapping is the resolved name of a direct member, and
\* a member with an unresolved name records no key and no edge.
C10_KeysAreMemberNames ==
    /\ \A k \in Range(mapKeys) : \E i \in 1..N : NameAt(i) = k
    /\ (\A i \in 1..N : ~ Truthy(NameAt(i))) => mapKeys = <<>>

====
